---- MODULE Spec2Model ----
(***************************************************************************)
(* Model of app.py, the Streamlit chat page of mahabharat-gpt.             *)
(*                                                                         *)
(* Streamlit runs the whole script top to bottom once per render cycle of  *)
(* a browser session.  One action, Render(s), is one such run for session  *)
(* s: the API-key check, the cached get_engine call, the sidebar buttons,  *)
(* the missing-index halt, the bootstrap of the history, the consumption   *)
(* of the pending shortcut, and the retrieve-then-generate flow.           *)
(* st.session_state is a dictionary per session; the result of get_engine  *)
(* is memoised per process by st.cache_resource.                           *)
(***************************************************************************)
EXTENDS Naturals, Sequences, FiniteSets, TLC

VARIABLES
    has_key,        \* "GOOGLE_API_KEY" in st.secrets: deployment configuration,
                    \* fixed when the process starts
    db_exists,      \* os.path.exists(DB_PATH), as the file system has it now
    engine_cache,   \* memo of get_engine: "empty", "none" or "engine"
    exists_calls,   \* how many times get_engine's body looked at DB_PATH
    session_state,  \* per session: the dictionary st.session_state
    widgets,        \* per session: what the last run put on the page
    run             \* what the last render cycle did: its session and event, its
                    \* locals, its calls and their answers, the history before it

vars == <<has_key, db_exists, engine_cache, exists_calls, session_state, widgets, run>>

(***************************************************************************)
(* Bounds of the model.                                                    *)
(***************************************************************************)
\* No query is submitted once the sessions together hold this many user turns.
MaxQueries == 2

\* The same limit where every button of the sidebar is clicked (SpecCatalog).
MaxCatalogQueries == 1

Sessions == {"s1", "s2"}

(***************************************************************************)
(* Python values.                                                          *)
(***************************************************************************)
\* Python's None where a string is expected (user_input, chat_input_val).
None == "<None>"

\* Truthiness of an optional string: None and "" are falsy.
Truthy(v) == v # None /\ v # ""

\* A dictionary with no keys.
EmptyDict == [k \in {} |-> None]

\* d[k] = v
Put(d, k, v) == [j \in (DOMAIN d) \cup {k} |-> IF j = k THEN v ELSE d[j]]

\* del d[k]
Del(d, k) == [j \in (DOMAIN d) \ {k} |-> d[j]]

AIMessage(text) == [type |-> "ai", content |-> text]
HumanMessage(text) == [type |-> "human", content |-> text]
SystemMessage(text) == [type |-> "system", content |-> text]

Greeting ==
    "Pranam, seeker of truth. I am the chronicler of the Great War. Ask, and I shall recite from the ancient texts."

(***************************************************************************)
(* The sidebar: the buttons in the order the script evaluates them.        *)
(***************************************************************************)
Pandavas == "The Pandavas"
Kauravas == "The Kauravas"
Elders == "Elders & Divine"

Shortcut(g, l, q) == [group |-> g, label |-> l, query |-> q]

Shortcuts == <<
    Shortcut(Pandavas, "Yudhishthira (Dharma)",
        "Tell me about Yudhishthira's adherence to Truth and the game of dice."),
    Shortcut(Pandavas, "Bhima (Strength)",
        "Describe Bhima's immense strength and his vows."),
    Shortcut(Pandavas, "Arjuna (Warrior)",
        "Describe Arjuna's skills, the Gandiva bow, and his bond with Krishna."),
    Shortcut(Pandavas, "Nakula & Sahadeva",
        "What were the special skills and roles of Nakula and Sahadeva?"),
    Shortcut(Pandavas, "Draupadi (Panchali)",
        "Tell me about Draupadi's birth from fire and her resilience."),
    Shortcut(Kauravas, "Duryodhana (King)",
        "Explain Duryodhana's motivations, his jealousy, and his friendship with Karna."),
    Shortcut(Kauravas, "Karna (Tragic Hero)",
        "Tell me about Karna's tragic life, his charity (Daan), and his armor (Kavach)."),
    Shortcut(Kauravas, "Shakuni (Planner)",
        "What was Shakuni's role in the game of dice and influencing Duryodhana?"),
    Shortcut(Kauravas, "Dushasana",
        "What was Dushasana's role in the court and his fate in the war?"),
    Shortcut(Elders, "Krishna (Divine)",
        "Describe the role of Krishna as the charioteer and his divinity."),
    Shortcut(Elders, "Bhishma (Grandsire)",
        "What was Bhishma's vow of celibacy and his role as the commander?"),
    Shortcut(Elders, "Guru Drona",
        "Tell me about Dronacharya as the teacher of both clans and his death.")
>>

Labels == {Shortcuts[i].label : i \in DOMAIN Shortcuts}
Groups == {Shortcuts[i].group : i \in DOMAIN Shortcuts}

(***************************************************************************)
(* Inputs of a render cycle.                                               *)
(***************************************************************************)
\* What the user typed into st.chat_input: one text equal to a canned
\* shortcut string, one free text, and the empty string.
TypedTexts == {
    "",
    "Karna kaun tha",
    "Describe Arjuna's skills, the Gandiva bow, and his bond with Krishna."}

\* The buttons the user clicks in Spec: one that shares its string with a typed
\* text and one other.  SpecCatalog clicks all of Labels.
ClickedLabels == {"Arjuna (Warrior)", "Karna (Tragic Hero)"}

\* What retriever.invoke returns: a list of documents (page_content), or a fault.
Retrievals == {
    [ok |-> TRUE, docs |-> <<"Karna gave away his armor.">>],
    [ok |-> TRUE, docs |-> <<"Karna was born to Kunti and Surya.", "Arjuna won Draupadi.">>],
    [ok |-> FALSE, docs |-> <<>>]}

\* What llm.invoke returns: a response with content, or a fault.
Generations == {
    [ok |-> TRUE, content |-> "Karna Surya ka putra tha."],
    [ok |-> TRUE, content |-> "Arjuna wielded the Gandiva."],
    [ok |-> FALSE, content |-> None]}

Load == [kind |-> "load", arg |-> None]
Click(l) == [kind |-> "click", arg |-> l]
Chat(t) == [kind |-> "chat", arg |-> t]

\* The history of a session, [] before the bootstrap created it.
Messages(ss) == IF "messages" \in DOMAIN ss THEN ss.messages ELSE <<>>

RECURSIVE CountHuman(_)
CountHuman(msgs) ==
    IF msgs = <<>> THEN 0
    ELSE (IF Head(msgs).type = "human" THEN 1 ELSE 0) + CountHuman(Tail(msgs))

RECURSIVE SumOver(_, _)
SumOver(S, st) ==
    IF S = {} THEN 0
    ELSE LET s == CHOOSE x \in S : TRUE
         IN CountHuman(Messages(st[s])) + SumOver(S \ {s}, st)

QueriesSoFar == SumOver(Sessions, session_state)

\* A run is triggered by a plain (re)load, by the click of one button the
\* page shows, or by a submission of the chat input the page shows.
Events(s, labels, texts, limit) ==
    {Load}
    \cup (IF widgets[s] \in {"sidebar", "all"} /\ QueriesSoFar < limit
          THEN {Click(l) : l \in labels} ELSE {})
    \cup (IF widgets[s] = "all" /\ QueriesSoFar < limit
          THEN {Chat(t) : t \in texts} ELSE {})

(***************************************************************************)
(* The sections of the script.                                             *)
(***************************************************************************)
\* get_engine without the @st.cache_resource line: the body runs in every run.
get_engine_uncached(cache, exists) ==
    LET made == IF ~exists THEN "none" ELSE "engine"
    IN [retriever |-> made, cache |-> made, calls |-> 1]

\* @st.cache_resource get_engine(): the body runs only when nothing is cached.
get_engine(cache, exists) ==
    IF cache # "empty"
    THEN [retriever |-> cache, cache |-> cache, calls |-> 0]
    ELSE LET made == IF ~exists THEN "none" ELSE "engine"
         IN [retriever |-> made, cache |-> made, calls |-> 1]

\* `if "GOOGLE_API_KEY" in st.secrets: ... else: st.error(...); st.stop()`
KeyMissing(key) == ~key

\* The missing-index check without its st.stop().
RetrieverMissingNever(retriever) == FALSE

\* `if not retriever: st.error(...); st.stop()`
RetrieverMissing(retriever) == retriever = "none"

\* st.button(label) is True in the run its click triggered.
Button(ev, label) == ev.kind = "click" /\ ev.arg = label

\* The sidebar's `if st.button(...): st.session_state.prompt_input = ...` lines.
RECURSIVE SidebarFrom(_, _, _)
SidebarFrom(ss, ev, i) ==
    IF i > Len(Shortcuts) THEN ss
    ELSE SidebarFrom(
            IF Button(ev, Shortcuts[i].label)
            THEN Put(ss, "prompt_input", Shortcuts[i].query)
            ELSE ss,
            ev, i + 1)

\* Every button assigning the string of the first one.
SidebarFirstButton(ss, ev) ==
    IF ev.kind = "click" THEN Put(ss, "prompt_input", Shortcuts[1].query) ELSE ss

Sidebar(ss, ev) == SidebarFrom(ss, ev, 1)

\* The bootstrap creating the list without the greeting.
InitializeStateNoGreeting(ss) ==
    IF "messages" \notin DOMAIN ss THEN Put(ss, "messages", <<>>) ELSE ss

\* The bootstrap without its `if "messages" not in st.session_state` guard.
InitializeStateAlways(ss) == Put(ss, "messages", <<AIMessage(Greeting)>>)

\* # Initialize State
InitializeState(ss) ==
    IF "messages" \notin DOMAIN ss
    THEN Put(ss, "messages", <<AIMessage(Greeting)>>)
    ELSE ss

\* The consumption without `del st.session_state.prompt_input`.
HandleSidebarClicksKeep(ss) ==
    IF "prompt_input" \in DOMAIN ss /\ Truthy(ss.prompt_input)
    THEN [user_input |-> ss.prompt_input, ss |-> ss]
    ELSE [user_input |-> None, ss |-> ss]

\* # Handle Sidebar Clicks
HandleSidebarClicks(ss) ==
    IF "prompt_input" \in DOMAIN ss /\ Truthy(ss.prompt_input)
    THEN [user_input |-> ss.prompt_input, ss |-> Del(ss, "prompt_input")]
    ELSE [user_input |-> None, ss |-> ss]

\* chat_input_val = st.chat_input(...)
ChatInput(ev) == IF ev.kind = "chat" THEN ev.arg ELSE None

\* final_query = chat_input_val, the shortcut forgotten.
FinalQueryChatOnly(user_input, chat_input_val) == chat_input_val

\* final_query = user_input if user_input else chat_input_val
FinalQuery(user_input, chat_input_val) ==
    IF Truthy(user_input) THEN user_input ELSE chat_input_val

\* "\n\n".join([d.page_content for d in docs])
RECURSIVE Join(_)
Join(docs) ==
    IF docs = <<>> THEN ""
    ELSE IF Len(docs) = 1 THEN docs[1]
    ELSE docs[1] \o "\n\n" \o Join(Tail(docs))

SystemPrompt(context_text) ==
    "You are Sanjaya, the wise narrator of the Mahabharata. "
    \o "CONTEXT:\n" \o context_text \o "\n\n"
    \o "RULES:"
    \o "1. LANGUAGE: Match the user's language (English, Hindi, or Hinglish)."
    \o "2. SCRIPT: If user types in Latin script (e.g. 'Karna kaun tha'), use Latin script (Hinglish). Do NOT use Devanagari unless user does."
    \o "3. TONE: Respectful, epic, like a Rishi."
    \o "4. CONTENT: Answer strictly based on context."

\* The system instruction added after the history instead of before it.
RequestSystemLast(system_prompt, msgs) == msgs \o <<SystemMessage(system_prompt)>>

\* messages = [SystemMessage(content=system_prompt)] + st.session_state.messages
Request(system_prompt, msgs) == <<SystemMessage(system_prompt)>> \o msgs

\* st.session_state.messages.insert(0, m)
AppendMessageInsertFirst(ss, m) == [ss EXCEPT !["messages"] = <<m>> \o @]

\* st.session_state.messages.append(m)
AppendMessage(ss, m) == [ss EXCEPT !["messages"] = Append(@, m)]

\* The block under `if final_query:`: append the user turn, retrieve, build the
\* request, generate, append the reply.  A fault of either call ends the run
\* there (the exception is not caught); what was appended before it stays.
GenerateResponse(ss, final_query, ret, gen) ==
    LET asked == AppendMessage(ss, HumanMessage(final_query))
        request == Request(SystemPrompt(Join(ret.docs)), asked.messages)
    IN  IF ~ret.ok
        THEN [ss |-> asked, outcome |-> "retriever_fault",
              retriever_call |-> final_query, retrieved |-> <<>>,
              generator_call |-> <<>>, response |-> None]
        ELSE IF ~gen.ok
        THEN [ss |-> asked, outcome |-> "generator_fault",
              retriever_call |-> final_query, retrieved |-> ret.docs,
              generator_call |-> request, response |-> None]
        ELSE [ss |-> AppendMessage(asked, AIMessage(gen.content)), outcome |-> "done",
              retriever_call |-> final_query, retrieved |-> ret.docs,
              generator_call |-> request, response |-> gen.content]

\* The pending-shortcut slot of a session, None when the key is not set.
Pending(ss) == IF "prompt_input" \in DOMAIN ss THEN ss.prompt_input ELSE None

\* The run when there is no query: nothing is retrieved or generated.
NoQuery(ss, outcome) ==
    [ss |-> ss, outcome |-> outcome, retriever_call |-> None, retrieved |-> <<>>,
     generator_call |-> <<>>, response |-> None]

\* The script from its first line to `if final_query:`.  stage says where the
\* run stands: halted on the missing key ("no_api_key") or the missing index
\* ("no_index"), through without a query ("idle"), or about to handle final_query
\* ("query").  page is what the run has put on the page by then.
Prologue(ss, cache, exists, key, ev) ==
    LET engine == get_engine(cache, exists)
        side == Sidebar(ss, ev)
        clicks == HandleSidebarClicks(InitializeState(side))
        final_query == FinalQuery(clicks.user_input, ChatInput(ev))
    IN  IF KeyMissing(key)
        THEN [stage |-> "no_api_key", ss |-> ss, cache |-> cache, calls |-> 0,
              page |-> "none", queued |-> None, user_input |-> None,
              final_query |-> None]
        ELSE IF RetrieverMissing(engine.retriever)
        THEN [stage |-> "no_index", ss |-> side, cache |-> engine.cache,
              calls |-> engine.calls, page |-> "sidebar", queued |-> Pending(side),
              user_input |-> None, final_query |-> None]
        ELSE [stage |-> IF Truthy(final_query) THEN "query" ELSE "idle",
              ss |-> clicks.ss, cache |-> engine.cache, calls |-> engine.calls,
              page |-> "all", queued |-> Pending(side),
              user_input |-> clicks.user_input, final_query |-> final_query]

(***************************************************************************)
(* The state machine.                                                      *)
(***************************************************************************)
NoRun ==
    [session |-> None, event |-> Load, outcome |-> "none", queued |-> None,
     user_input |-> None, final_query |-> None, retriever_call |-> None,
     retrieved |-> <<>>, generator_call |-> <<>>, response |-> None,
     before |-> <<>>, db_present |-> FALSE]

Init ==
    /\ has_key \in BOOLEAN
    /\ db_exists \in BOOLEAN
    /\ engine_cache = "empty"
    /\ exists_calls = 0
    /\ session_state = [s \in Sessions |-> EmptyDict]
    /\ widgets = [s \in Sessions |-> "none"]
    /\ run = NoRun

\* The state after a run of session s on event ev: p is its prologue, flow what
\* the block under `if final_query:` did (NoQuery when it was not entered).
Finish(s, ev, p, flow) ==
    /\ session_state' = [session_state EXCEPT ![s] = flow.ss]
    /\ engine_cache' = p.cache
    /\ exists_calls' = exists_calls + p.calls
    /\ widgets' = [widgets EXCEPT ![s] = p.page]
    /\ run' = [session |-> s, event |-> ev, outcome |-> flow.outcome,
               queued |-> p.queued, user_input |-> p.user_input,
               final_query |-> p.final_query,
               retriever_call |-> flow.retriever_call,
               retrieved |-> flow.retrieved,
               generator_call |-> flow.generator_call,
               response |-> flow.response,
               before |-> Messages(session_state[s]),
               db_present |-> db_exists]
    /\ UNCHANGED <<has_key, db_exists>>

\* One render cycle of session s, its event drawn from the given inputs.  The
\* answers of the retriever and the generator are inputs of a run with a query.
Cycle(s, labels, texts, limit) ==
    \E ev \in Events(s, labels, texts, limit) :
        LET p == Prologue(session_state[s], engine_cache, db_exists, has_key, ev)
        IN  IF p.stage = "query"
            THEN \E ret \in Retrievals, gen \in Generations :
                    Finish(s, ev, p, GenerateResponse(p.ss, p.final_query, ret, gen))
            ELSE Finish(s, ev, p, NoQuery(p.ss, p.stage))

\* The environment: the ingestion script creates DB_PATH, or it is removed.
IndexDirectoryChanges ==
    /\ db_exists' = ~db_exists
    /\ UNCHANGED <<has_key, engine_cache, exists_calls, session_state, widgets, run>>

\* A render cycle of a user who loads, clicks ClickedLabels and types.
Render(s) == Cycle(s, ClickedLabels, TypedTexts, MaxQueries)

\* A render cycle of a user who loads and clicks any button of the sidebar.
RenderCatalog(s) == Cycle(s, Labels, {}, MaxCatalogQueries)

Next ==
    \/ \E s \in Sessions : Render(s)
    \/ IndexDirectoryChanges

Spec == Init /\ [][Next]_vars

NextCatalog ==
    \/ \E s \in Sessions : RenderCatalog(s)
    \/ IndexDirectoryChanges

SpecCatalog == Init /\ [][NextCatalog]_vars

(***************************************************************************)
(* Vocabulary of the properties.                                           *)
(***************************************************************************)
\* A render cycle has run.
Ran == run.session # None

\* ConversationState of the session of the last render cycle, as it is now.
Now == Messages(session_state[run.session])

\* The last render cycle ran the script past the missing-index halt.
Passed == run.outcome \in {"idle", "retriever_fault", "generator_fault", "done"}

IsPrefix(a, b) == Len(a) <= Len(b) /\ SubSeq(b, 1, Len(a)) = a

\* No two adjacent turns have the same role.
Alternates(msgs) == \A i \in 1..(Len(msgs) - 1) : msgs[i].type # msgs[i + 1].type

\* The string the sidebar binds to a label.
Canned(label) == Shortcuts[CHOOSE i \in DOMAIN Shortcuts : Shortcuts[i].label = label].query

\* The query an event carries: the canned string of a click, the text of a
\* submission, none for a plain load.
QueryOf(ev) ==
    IF ev.kind = "click" THEN Canned(ev.arg)
    ELSE IF ev.kind = "chat" THEN ev.arg
    ELSE None

ArjunaQuery == "Describe Arjuna's skills, the Gandiva bow, and his bond with Krishna."

(***************************************************************************)
(* C1: a render cycle that handles a non-empty query, with the retriever   *)
(* available and both calls returning, turns a history of N turns into one *)
(* of N+2: the N turns unchanged, then a user turn with the query, then an *)
(* assistant turn with the generator's reply.                              *)
(***************************************************************************)
C1_RoundTrip ==
    (Ran /\ run.outcome = "done") =>
        LET N == Len(run.before)
        IN  /\ Truthy(QueryOf(run.event))
            /\ Len(Now) = N + 2
            /\ SubSeq(Now, 1, N) = run.before
            /\ Now[N + 1] = [type |-> "human", content |-> QueryOf(run.event)]
            /\ Now[N + 2] = [type |-> "ai", content |-> run.response]

\* A shortcut handled to the end on a history of three turns.
C1_Witness ==
    /\ Ran /\ run.outcome = "done" /\ run.event.kind = "click"
    /\ Len(run.before) = 3 /\ Len(Now) = 5

(***************************************************************************)
(* C2: in every request sent to the generator the ConversationState part   *)
(* alternates between user and assistant turns.  The code keeps the user   *)
(* turn of a cycle whose retriever or generator call faulted, so the next  *)
(* request holds two user turns in a row.                                  *)
(***************************************************************************)
C2_RequestAlternates ==
    (Ran /\ run.generator_call # <<>>) => Alternates(Tail(run.generator_call))

(***************************************************************************)
(* C3: with the retriever unavailable every render cycle halts before any  *)
(* retrieval or generation call and leaves ConversationState unchanged,    *)
(* shortcut or not.                                                        *)
(***************************************************************************)
C3_HaltsWithoutRetriever ==
    (Ran /\ engine_cache = "none") =>
        /\ run.outcome = "no_index"
        /\ run.retriever_call = None
        /\ run.generator_call = <<>>
        /\ Now = run.before
        /\ \A s \in Sessions : "messages" \notin DOMAIN session_state[s]

C3_Witness ==
    /\ Ran /\ engine_cache = "none" /\ run.event.kind = "click"
    /\ run.outcome = "no_index" /\ Pending(session_state[run.session]) = ArjunaQuery

(***************************************************************************)
(* C4, as claimed: every shortcut activation queues exactly one query      *)
(* string, the render cycle consumes it as its query and clears the slot,  *)
(* and a cycle without an activation submits no shortcut query.            *)
(***************************************************************************)
C4_ConsumedOnce ==
    Ran =>
        /\ run.event.kind = "click" =>
              /\ run.queued = Canned(run.event.arg)
              /\ run.user_input = run.queued
              /\ run.final_query = run.queued
              /\ Pending(session_state[run.session]) = None
        /\ run.event.kind # "click" => run.user_input = None

(***************************************************************************)
(* C4, amended: every shortcut activation queues exactly one query string. *)
(* When the retriever is available the same render cycle consumes it as    *)
(* its query (the user turn it appends) and clears the slot, so no slot is *)
(* pending after a cycle and a cycle without an activation submits no      *)
(* shortcut query.  When the retriever is unavailable the cycle halts with *)
(* the string still in the slot, and no cycle consumes it.                 *)
(***************************************************************************)
C4_ConsumedOnceIfAvailable ==
    Ran =>
        /\ run.event.kind = "click" => run.queued = Canned(run.event.arg)
        /\ (run.event.kind = "click" /\ Passed) =>
              /\ run.user_input = run.queued
              /\ run.final_query = run.queued
              /\ run.retriever_call = run.queued
              /\ IsPrefix(run.before \o <<[type |-> "human", content |-> run.queued]>>, Now)
        /\ Passed => \A s \in Sessions : Pending(session_state[s]) = None
        /\ run.event.kind # "click" => run.user_input = None
        /\ ~Passed =>
              /\ run.user_input = None
              /\ run.event.kind = "click" =>
                    Pending(session_state[run.session]) = run.queued

\* A shortcut consumed in a session that handled an exchange before.
C4_Witness ==
    /\ Ran /\ run.event = Click("Karna (Tragic Hero)") /\ run.outcome = "done"
    /\ run.user_input = "Tell me about Karna's tragic life, his charity (Daan), and his armor (Kavach)."
    /\ Len(run.before) = 3
    /\ Pending(session_state[run.session]) = None

(***************************************************************************)
(* C5, as claimed: the first load of a session makes ConversationState the *)
(* single greeting turn, it stays so until the first user input, and later *)
(* loads leave the existing history in place.  (Stated for a process that  *)
(* has its API key, so that only the index decides.)                       *)
(***************************************************************************)
C5_BootstrapFirstLoad ==
    (Ran /\ has_key) =>
        /\ Len(Now) >= 1
        /\ Now[1] = [type |-> "ai", content |-> Greeting]
        /\ CountHuman(Now) = 0 => Len(Now) = 1
        /\ IsPrefix(run.before, Now)

(***************************************************************************)
(* C5, amended: the first load of a session that passes the API-key and    *)
(* missing-index checks makes ConversationState the single greeting turn,  *)
(* it stays so until the first user input, and every later load leaves the *)
(* existing history in place (never reset to the greeting).  A load that   *)
(* halts on either check creates no ConversationState.                     *)
(***************************************************************************)
C5_BootstrapIdempotent ==
    /\ Ran =>
        /\ ~Passed => (Now = <<>> /\ run.before = <<>>)
        /\ (Passed /\ run.before = <<>>) => Now = <<[type |-> "ai", content |-> Greeting]>>
        /\ (Passed /\ run.before # <<>>) => IsPrefix(run.before, Now)
        /\ (Passed /\ run.before # <<>> /\ run.event.kind = "load") => Now = run.before
    /\ \A s \in Sessions :
          LET m == Messages(session_state[s])
          IN  m # <<>> =>
                /\ m[1] = [type |-> "ai", content |-> Greeting]
                /\ CountHuman(m) = 0 => Len(m) = 1

\* A later plain load of a session whose history holds an exchange.
C5_Witness ==
    /\ Ran /\ run.event.kind = "load" /\ run.outcome = "idle"
    /\ Len(run.before) = 3 /\ Now = run.before

(***************************************************************************)
(* C6: every request sent to the generator is one system instruction, in   *)
(* first position and built from the passages of this request, followed by *)
(* the whole ConversationState in order, whose last element is the user    *)
(* turn of the current query; ConversationState never holds a system       *)
(* instruction.                                                            *)
(***************************************************************************)
C6_RequestShape ==
    /\ (Ran /\ run.generator_call # <<>>) =>
          LET req == run.generator_call
              conv == Tail(req)
              sent == run.before \o <<[type |-> "human", content |-> QueryOf(run.event)]>>
          IN  /\ req[1] = [type |-> "system", content |-> SystemPrompt(Join(run.retrieved))]
              /\ \A i \in 2..Len(req) : req[i].type # "system"
              /\ conv = sent
              /\ conv = (IF run.outcome = "done" THEN SubSeq(Now, 1, Len(Now) - 1) ELSE Now)
              /\ conv[Len(conv)] = [type |-> "human", content |-> run.final_query]
    /\ \A s \in Sessions :
          \A i \in 1..Len(Messages(session_state[s])) :
              Messages(session_state[s])[i].type # "system"

\* A request that carries an earlier exchange and two retrieved passages.
C6_Witness ==
    /\ Ran /\ run.outcome = "done" /\ Len(run.generator_call) = 5
    /\ Len(run.retrieved) = 2

(***************************************************************************)
(* C7: a shortcut whose string is q and a manual entry of q are the same   *)
(* query.  What a render cycle retrieves, requests and appends is fixed by *)
(* the history before it, q and the two answers, whichever way q came in.  *)
(***************************************************************************)
C7_ShortcutIsTyping ==
    (Ran /\ Passed /\ run.event.kind \in {"click", "chat"}) =>
        LET q == QueryOf(run.event)
            asked == run.before \o <<[type |-> "human", content |-> q]>>
        IN  /\ run.final_query = q
            /\ ~Truthy(q) => (run.outcome = "idle" /\ Now = run.before)
            /\ Truthy(q) =>
                  /\ run.retriever_call = q
                  /\ run.outcome = "retriever_fault" =>
                        (run.generator_call = <<>> /\ Now = asked)
                  /\ run.outcome # "retriever_fault" =>
                        run.generator_call =
                            <<[type |-> "system",
                               content |-> SystemPrompt(Join(run.retrieved))]>> \o asked
                  /\ run.outcome = "generator_fault" => Now = asked
                  /\ run.outcome = "done" =>
                        Now = asked \o <<[type |-> "ai", content |-> run.response]>>
                  /\ run.outcome # "idle"

\* The shortcut whose string the model also types, handled to the end.
C7_Witness ==
    /\ Ran /\ run.event = Click("Arjuna (Warrior)") /\ run.outcome = "done"
    /\ run.final_query = ArjunaQuery /\ ArjunaQuery \in TypedTexts
    /\ Len(run.before) = 1

(***************************************************************************)
(* C8: the index directory is looked at once, by the first get_engine call *)
(* of the process, and the result is cached: no later render cycle of any  *)
(* session looks again or changes it, and once the index was found missing *)
(* every later render cycle halts with the missing-index error, calling    *)
(* neither retriever nor generator, even when the directory exists by then.*)
(***************************************************************************)
C8_DetectedOnce ==
    [][ /\ engine_cache # "empty" =>
              (engine_cache' = engine_cache /\ exists_calls' = exists_calls)
        /\ (engine_cache = "empty" /\ engine_cache' # "empty") =>
              /\ exists_calls = 0 /\ exists_calls' = 1
              /\ engine_cache' = (IF db_exists THEN "engine" ELSE "none")
        /\ (engine_cache = "empty" /\ engine_cache' = "empty") =>
              exists_calls' = exists_calls
        /\ (engine_cache = "none" /\ run' # run) =>
              /\ run'.outcome = "no_index"
              /\ run'.retriever_call = None
              /\ run'.generator_call = <<>>
              /\ session_state'[run'.session] = Sidebar(session_state[run'.session], run'.event)
      ]_vars

\* The second session halts on the cached result while the directory exists.
C8_Witness ==
    /\ engine_cache = "none" /\ exists_calls = 1
    /\ run.session = "s2" /\ run.outcome = "no_index" /\ run.db_present
    /\ widgets["s1"] = "sidebar"

(***************************************************************************)
(* C9, as claimed: the catalog has 19 distinct labels in 3 groups, each    *)
(* with one fixed non-empty query string, "Arjuna (Warrior)" queueing its  *)
(* string.                                                                 *)
(***************************************************************************)
C9_Catalog19 ==
    /\ Len(Shortcuts) = 19
    /\ Cardinality(Labels) = 19
    /\ Cardinality(Groups) = 3
    /\ (Ran /\ run.event.kind = "click") => Truthy(run.queued)
    /\ (Ran /\ run.event = Click("Arjuna (Warrior)")) => run.queued = ArjunaQuery

(***************************************************************************)
(* C9, amended: the catalog has 12 distinct labels in 3 groups (5, 4 and   *)
(* 3), each with one fixed non-empty query string: activating a label      *)
(* queues the string of that label and no other, and "Arjuna (Warrior)"    *)
(* queues "Describe Arjuna's skills, the Gandiva bow, and his bond with    *)
(* Krishna.".                                                              *)
(***************************************************************************)
C9_Catalog12 ==
    /\ Len(Shortcuts) = 12
    /\ Cardinality(Labels) = 12
    /\ Cardinality(Groups) = 3
    /\ Cardinality({i \in DOMAIN Shortcuts : Shortcuts[i].group = Pandavas}) = 5
    /\ Cardinality({i \in DOMAIN Shortcuts : Shortcuts[i].group = Kauravas}) = 4
    /\ Cardinality({i \in DOMAIN Shortcuts : Shortcuts[i].group = Elders}) = 3
    /\ (Ran /\ run.event.kind = "click") =>
          /\ Truthy(run.queued)
          /\ \A i \in DOMAIN Shortcuts :
                (Shortcuts[i].label = run.event.arg) <=> (Shortcuts[i].query = run.queued)
    /\ (Ran /\ run.event = Click("Arjuna (Warrior)")) => run.queued = ArjunaQuery

\* Arjuna's button clicked after another button whose string was left pending.
C9_Witness ==
    /\ Ran /\ run.event = Click("Arjuna (Warrior)") /\ run.queued = ArjunaQuery
    /\ run.outcome = "no_index"
    /\ \E s \in Sessions :
          s # run.session
          /\ Pending(session_state[s]) = "Tell me about Dronacharya as the teacher of both clans and his death."

====
